---- MODULE Spec2Model ----
(***************************************************************************)
(* Verification model of tokamak-agent-teams.                              *)
(*                                                                         *)
(* Three state machines share this module, each with its own               *)
(* specification:                                                          *)
(*   SessionSpec  - SessionManager, the /api/forge and /api/session/stop   *)
(*                  handlers, runForge and DockerManager                   *)
(*   WatcherSpec  - RepoWatcher (the Reconciler) polling a repository      *)
(*   WorkerSpec   - the agent loop script run by every worker container    *)
(* A specification leaves the variables of the other two machines alone.   *)
(***************************************************************************)
EXTENDS Integers, Sequences, FiniteSets, TLC

\* ------------------------------------------------------------------ bounds
MaxSessions == 2        \* sessions created in one run of the server
MaxStops == 1           \* stop handlers suspended in `await stopAll()` at once

MaxPushes == 2          \* commits pushed to the origin after the initial one
MaxTicks == 2           \* polls of the Reconciler

MaxPolls == 8           \* polls begun on the event loop

MaxRemote == 2          \* commits the workers push to origin/main
MaxAhead == 1           \* unpushed commits a worker's clone holds
MaxFailures == 1        \* commands of the loop scripts that fail

MaxLogs == 503          \* addLog calls on one session
MaxProgressLogs == 3    \* of them, log lines the ForgeProcess reports

MaxStarts == 3          \* start() and reset() calls on one RepoWatcher
MaxLifePolls == 10      \* polls one RepoWatcher runs

MaxRequested == 7       \* the largest agentCount a request asks for
MaxBelow == 2           \* the smallest is -MaxBelow

\* ---------------------------------------------------------------- variables
VARIABLES
    \* SessionManager / server.js / docker-manager
    sessions,           \* SessionManager.sessions: id -> Session fields
    activeSessionId,    \* SessionManager.activeSessionId (0 is null)
    forge,              \* position of every runForge(session) call in flight
    watcher,            \* server.js `watcher`: 0 (null) or the session it was made for
    timers,             \* sessions whose RepoWatcher has a live interval timer
    containers,         \* DockerManager.containers: agentId -> owning session
    running,            \* containers actually running: <<session, agentId>>
    stopReqs            \* stop handlers suspended in `await stopAll()`: the
                        \* session each will stop and the containers it iterated

sessVars == <<sessions, activeSessionId, forge, watcher, timers, containers,
              running, stopReqs>>

VARIABLES
    \* the repository and ledger the Reconciler observes
    origin,             \* history of the durable origin, oldest commit first
    wcopy,              \* number of origin commits in the observer's working copy
    ledgerDir,          \* files of current_tasks/ as the observer finds them
    \* RepoWatcher
    lastCommitHash,     \* RepoWatcher.lastCommitHash (0 is null)
    timer,              \* RepoWatcher.timer is set (the interval timer is live)
    wstate,             \* RepoWatcher.state
    published,          \* events the latest poll emitted, in order
    \* history of the observation, kept for the claims
    ticks,              \* polls run so far
    tickHead,           \* head hash the latest poll read (0: it read none)
    tickRead,           \* the latest poll read current_tasks/ and every record
    tickPull,           \* the latest poll's `git pull` succeeded
    prevHead,           \* head hash read by the last poll before it that read one
    seen                \* every commit some poll has had in its commits list

watchVars == <<origin, wcopy, ledgerDir, lastCommitHash, timer, wstate,
               published, ticks, tickHead, tickRead, tickPull,
                   prevHead, seen>>

VARIABLES
    \* the agent loop of every worker container and the origin they share
    remote,             \* commits on origin/main beyond the initial one
    pc,                 \* the line each worker's script is at
    tracking,           \* each worker's origin/main as of its last fetch
    base,               \* origin commits each worker's local branch contains
    ahead,              \* local commits of each worker that origin lacks
    conflicted,         \* this iteration's `git pull --rebase` failed
    claudeStatus,       \* exit status of the executor run being recorded
    failures,           \* commands of the scripts that have failed so far
    exitCode,           \* the script's EXIT_CODE variable (-1: not yet set)
    execs,              \* executor invocations in each worker's current iteration
    resetAt             \* the origin head at which each worker ended its latest
                        \* conflict recovery, no pull tried since (-1: none)

workVars ==
    <<remote, pc, tracking, base, ahead, conflicted, claudeStatus, exitCode,
      failures, execs, resetAt>>

VARIABLES
    \* the Node event loop the RepoWatcher's callbacks run on
    callStack,          \* the line of poll() being executed ("idle": none)
    timerDue,           \* the interval has expired and its callback is queued
    intervalLive,       \* setInterval has been called and not cleared
    awaiting,           \* polls that returned to the loop before their end
    begun,              \* polls entered so far
    ended               \* polls that ran to their last line

loopVars == <<callStack, timerDue, intervalLive, awaiting, begun, ended>>

VARIABLES
    \* the log of one Session
    logs,               \* Session.logs
    added,              \* every entry addLog has built, in call order
    serialized          \* the logs field of the session's latest toJSON()

logVars == <<logs, added, serialized>>

VARIABLES
    \* one RepoWatcher driven through start, stop and reset
    timerId,            \* RepoWatcher.timer: the interval it holds (0 is null)
    intervals,          \* intervals set with setInterval and not cleared
    created,            \* setInterval calls so far (interval ids are 1, 2, ...)
    pollCount,          \* polls run so far, each emitting its events
    halted              \* stop() has returned and neither start() nor reset()
                        \* has been called since

lifeVars == <<timerId, intervals, created, pollCount, halted>>

VARIABLES
    \* one POST /api/forge request and the fleet launched for it
    request,            \* the agentCount the request body carries
    fleetCount,         \* session.agentCount (0: no session created yet)
    started,            \* agent ids launchAgents has started, in order
    fleetPc             \* "request", "launching", "launched" or "failed"

fleetVars == <<request, fleetCount, started, fleetPc>>

vars == <<sessVars, watchVars, workVars, loopVars, logVars, lifeVars, fleetVars>>

\* what the steps of each machine leave alone
notSession == <<watchVars, workVars, loopVars, logVars, lifeVars, fleetVars>>
notWatcher == <<sessVars, workVars, loopVars, logVars, lifeVars, fleetVars>>
notWorker == <<sessVars, watchVars, loopVars, logVars, lifeVars, fleetVars>>
notLoop == <<sessVars, watchVars, workVars, logVars, lifeVars, fleetVars>>
notLog == <<sessVars, watchVars, workVars, loopVars, lifeVars, fleetVars>>
notLife == <<sessVars, watchVars, workVars, loopVars, logVars, fleetVars>>
notFleet == <<sessVars, watchVars, workVars, loopVars, logVars, lifeVars>>

\* ------------------------------------------------------------ session.js
INITIALIZING == "initializing"
SCAFFOLDING == "scaffolding"
GENERATING_SPEC == "generating-spec"
LAUNCHING_AGENTS == "launching-agents"
RUNNING == "running"
STOPPED == "stopped"

STATUS == {INITIALIZING, SCAFFOLDING, GENERATING_SPEC, LAUNCHING_AGENTS,
           RUNNING, STOPPED}

\* new Session(gameName, agentCount)
NewSession(agentCount) ==
    [status |-> INITIALIZING, agentCount |-> agentCount, forgeStep |-> 0,
     containerIds |-> {}]

\* Session.setStatus
SetStatus(session, status) == [session EXCEPT !.status = status]

\* Session.setForgeStep
SetForgeStep(session, step) == [session EXCEPT !.forgeStep = step]

\* The guard of SessionManager.create: the session the active pointer names
\* exists and is not stopped.
CreateConflict ==
    /\ activeSessionId # 0
    /\ activeSessionId \in DOMAIN sessions
    /\ sessions[activeSessionId].status # STOPPED

\* getActive without the status test
GetActiveIgnoresStatus == activeSessionId

\* SessionManager.getActive (0 is null)
GetActive ==
    IF activeSessionId = 0 THEN 0
    ELSE IF activeSessionId \notin DOMAIN sessions
            \/ sessions[activeSessionId].status = STOPPED THEN 0
    ELSE activeSessionId

\* SessionManager.stop(id)
SessionManagerStop(id) ==
    IF id \in DOMAIN sessions
    THEN [sessions EXCEPT ![id] = SetStatus(@, STOPPED)]
    ELSE sessions

\* ------------------------------------------------------------- server.js
\* the count without Math.min(..., 5)
ClampCountNoUpper(raw) ==
    LET parsed == IF raw.kind = "missing" THEN 3
                  ELSE IF raw.kind = "text" THEN 0
                  ELSE raw.n
        orThree == IF parsed = 0 THEN 3 ELSE parsed
    IN  IF orThree < 1 THEN 1 ELSE orThree

\* /api/forge: const { agentCount = 3 } = body;
\* const count = Math.min(Math.max(parseInt(agentCount, 10) || 3, 1), 5)
\* A request's agentCount is missing, a number, or text that parses to NaN;
\* of a number parseInt reads the digits before the decimal point, raw.n.
ClampCount(raw) ==
    LET parsed == IF raw.kind = "missing" THEN 3
                  ELSE IF raw.kind = "text" THEN 0   \* NaN is falsy, as 0 is
                  ELSE raw.n
        orThree == IF parsed = 0 THEN 3 ELSE parsed
        low     == IF orThree < 1 THEN 1 ELSE orThree
    IN  IF low > 5 THEN 5 ELSE low

\* the agentCount values requests carry
RequestedCounts == {[kind |-> "num", n |-> 1], [kind |-> "num", n |-> 2]}

\* runForge.onProgress for a {type: 'step'} event
OnProgressStep(session, step) ==
    LET s1 == SetForgeStep(session, step)
    IN  IF step <= 2 THEN SetStatus(s1, SCAFFOLDING)
        ELSE IF step = 3 THEN SetStatus(s1, GENERATING_SPEC)
        ELSE SetStatus(s1, LAUNCHING_AGENTS)

\* RepoWatcher.stop as the server uses it: `if (watcher) watcher.stop()`
TimersAfterWatcherStop == IF watcher # 0 THEN timers \ {watcher} ELSE timers

\* POST /api/forge answers 409 when sessionManager.create throws, else 200
ForgeResponse == IF CreateConflict THEN 409 ELSE 200

\* POST /api/forge: sessionManager.create, then runForge(session) up to its
\* first await (forge.run() reports step 0 synchronously).
ForgeHandler(raw) ==
    /\ UNCHANGED notSession
    /\ IF ForgeResponse = 409
       THEN UNCHANGED sessVars
       ELSE
         /\ Cardinality(DOMAIN sessions) < MaxSessions
         /\ LET id == Cardinality(DOMAIN sessions) + 1
                session == NewSession(ClampCount(raw))
            IN  /\ sessions' = sessions @@ (id :> OnProgressStep(session, 0))
                /\ activeSessionId' = id
                /\ forge' = forge @@ (id :> [pc |-> "prereqs", i |-> 0])
         /\ UNCHANGED <<watcher, timers, containers, running, stopReqs>>

\* runForge's catch block: stop the module-level watcher, mark the session stopped
RunForgeCatch(s, session) ==
    /\ timers' = TimersAfterWatcherStop
    /\ watcher' = 0
    /\ sessions' = [sessions EXCEPT ![s] = SetStatus(session, STOPPED)]
    /\ forge' = [forge EXCEPT ![s] = [pc |-> "failed", i |-> 0]]

\* forge.run() resumes after validatePrereqs: steps 1, 2, 3 and then the
\* await of generateSpec; a throw in validatePrereqs, createBareRepo or
\* scaffoldProject goes to runForge's catch.
ForgePrereqs(s) ==
    /\ UNCHANGED notSession
    /\ s \in DOMAIN forge
    /\ forge[s].pc = "prereqs"
    /\ \/ /\ sessions' = [sessions EXCEPT ![s] =
                 OnProgressStep(OnProgressStep(OnProgressStep(@, 1), 2), 3)]
          /\ forge' = [forge EXCEPT ![s].pc = "genspec"]
          /\ UNCHANGED <<watcher, timers>>
       \/ RunForgeCatch(s, sessions[s])
    /\ UNCHANGED <<activeSessionId, containers, running, stopReqs>>

\* forge.run() resumes after generateSpec: steps 4, 5, complete; then runForge
\* replaces the watcher, starts it, reports step 6 and awaits buildAgentImage.
\* A throw in generateSpec, setupTests or initialCommit goes to the catch.
ForgeGenerate(s) ==
    /\ UNCHANGED notSession
    /\ s \in DOMAIN forge
    /\ forge[s].pc = "genspec"
    /\ \/ /\ sessions' = [sessions EXCEPT ![s] =
                 SetForgeStep(SetStatus(
                     OnProgressStep(OnProgressStep(@, 4), 5), LAUNCHING_AGENTS), 6)]
          /\ timers' = TimersAfterWatcherStop \cup {s}
          /\ watcher' = s
          /\ forge' = [forge EXCEPT ![s].pc = "build"]
       \/ RunForgeCatch(s, sessions[s])
    /\ UNCHANGED <<activeSessionId, containers, running, stopReqs>>

\* runForge resumes after buildAgentImage and enters launchAgents (i = 1)
ForgeBuild(s) ==
    /\ UNCHANGED notSession
    /\ s \in DOMAIN forge
    /\ forge[s].pc = "build"
    /\ \/ /\ forge' = [forge EXCEPT ![s] = [pc |-> "launch", i |-> 1]]
          /\ UNCHANGED <<sessions, watcher, timers>>
       \/ RunForgeCatch(s, sessions[s])
    /\ UNCHANGED <<activeSessionId, containers, running, stopReqs>>

\* DockerManager.launchAgents, one turn of its loop: createContainer and
\* container.start() for agent i, then the container is tracked. After the
\* last one runForge records the ids and sets RUNNING. A rejection of either
\* await leaves the container untracked and not running and goes to the catch.
LaunchAgent(s) ==
    /\ UNCHANGED notSession
    /\ s \in DOMAIN forge
    /\ forge[s].pc = "launch"
    /\ LET i == forge[s].i
       IN  \/ /\ running' = running \cup {<<s, i>>}
              /\ containers' = [a \in DOMAIN containers \cup {i} |->
                                   IF a = i THEN s ELSE containers[a]]
              /\ IF i < sessions[s].agentCount
                 THEN /\ forge' = [forge EXCEPT ![s] = [pc |-> "launch", i |-> i + 1]]
                      /\ UNCHANGED sessions
                 ELSE /\ forge' = [forge EXCEPT ![s] = [pc |-> "done", i |-> 0]]
                      /\ sessions' = [sessions EXCEPT ![s] =
                             SetStatus([@ EXCEPT !.containerIds = 1..i], RUNNING)]
              /\ UNCHANGED <<watcher, timers>>
           \/ /\ RunForgeCatch(s, sessions[s])
              /\ UNCHANGED <<containers, running>>
    /\ UNCHANGED <<activeSessionId, stopReqs>>

\* the stop handler's tail without `if (watcher) watcher.stop()`
StopTailKeepsTimer(sid, snap) ==
    /\ running' = running \ {<<snap[a], a>> : a \in DOMAIN snap}
    /\ containers' = <<>>
    /\ timers' = timers
    /\ watcher' = 0
    /\ sessions' = SessionManagerStop(sid)

\* the part of the stop handler after `await dockerManager.stopAll()`:
\* stopAll's tail (the containers it iterated are gone, the map is cleared),
\* then watcher.stop(), sessionManager.stop(session.id) and the response
StopTail(sid, snap) ==
    /\ running' = running \ {<<snap[a], a>> : a \in DOMAIN snap}
    /\ containers' = <<>>
    /\ timers' = TimersAfterWatcherStop
    /\ watcher' = 0
    /\ sessions' = SessionManagerStop(sid)

\* a stop handler that rejects only when no session was ever created
StopResponseByPointer == IF activeSessionId = 0 THEN 404 ELSE 200

\* POST /api/session/stop answers 404 when getActive() is null
StopResponse == IF GetActive = 0 THEN 404 ELSE 200

\* POST /api/session/stop up to `await dockerManager.stopAll()`. With no
\* tracked container the await resolves without leaving the event-loop turn.
StopHandler ==
    /\ UNCHANGED notSession
    /\ IF StopResponse = 404
       THEN UNCHANGED sessVars
       ELSE IF DOMAIN containers = {}
       THEN /\ StopTail(GetActive, containers)
            /\ UNCHANGED <<activeSessionId, forge, stopReqs>>
       ELSE /\ Cardinality(stopReqs) < MaxStops
            /\ stopReqs' = stopReqs \cup {[sid |-> GetActive, snap |-> containers]}
            /\ UNCHANGED <<sessions, activeSessionId, forge, watcher, timers,
                           containers, running>>

\* a suspended stop handler resumes
StopResume(req) ==
    /\ UNCHANGED notSession
    /\ req \in stopReqs
    /\ StopTail(req.sid, req.snap)
    /\ stopReqs' = stopReqs \ {req}
    /\ UNCHANGED <<activeSessionId, forge>>

SessionStart ==
    /\ sessions = <<>>
    /\ activeSessionId = 0
    /\ forge = <<>>
    /\ watcher = 0
    /\ timers = {}
    /\ containers = <<>>
    /\ running = {}
    /\ stopReqs = {}

SessionNext ==
    \/ \E raw \in RequestedCounts : ForgeHandler(raw)
    \/ StopHandler
    \/ \E req \in stopReqs : StopResume(req)
    \/ \E s \in 1..MaxSessions :
          \/ ForgePrereqs(s)
          \/ ForgeGenerate(s)
          \/ ForgeBuild(s)
          \/ LaunchAgent(s)

\* ------------------------------------------------------------- watcher.js
\* git log reads at most this many commits (`-30`)
LogWindow == 30

\* currentTask: null
Null == "<null>"

\* Commit authors: a name is a stem and the digits that follow "stem-".
AGENT1 == [stem |-> "agent", id |-> "1"]
AGENT2 == [stem |-> "agent", id |-> "2"]
HUMAN == [stem |-> "forge", id |-> ""]

\* commit.author?.match(/agent-(\d+)/): the digits, or "" for no match
AuthorMatch(author) ==
    IF author.stem = "agent" /\ author.id # "" THEN author.id ELSE ""

\* commit.message?.includes('작업 완료')
IncludesMarker(message) == message.marker

\* the commit forge.initialCommit pushes before the watcher is started
InitialCommit == [hash |-> 1, author |-> HUMAN, message |-> [marker |-> FALSE]]

\* what workers push: an author and whether the message carries the marker
PushKinds == {<<AGENT1, TRUE>>, <<AGENT1, FALSE>>, <<AGENT2, TRUE>>}

\* Ledger files: the name is <stem>-<id>-<ts> (ts -1: no digits there), the
\* content is a text and possibly a trailing newline.
GitKeep == [stem |-> ".gitkeep", id |-> "", ts |-> -1, text |-> "", nl |-> FALSE]
TaskFiles ==
    { [stem |-> "agent", id |-> "1", ts |-> 100, text |-> "implement scoring", nl |-> TRUE],
      [stem |-> "agent", id |-> "1", ts |-> 200, text |-> "render board", nl |-> FALSE],
      [stem |-> "notes", id |-> "", ts |-> -1, text |-> "todo", nl |-> FALSE] }

\* f.match(/agent-(\d+)-(\d+)/)
TaskFileMatch(f) == f.stem = "agent" /\ f.id # "" /\ f.ts >= 0

\* fs.readFileSync(...).trim()
Trim(f) == f.text

\* the map callback without the `match ?` fallbacks
TaskRecordNoFallback(f) ==
    [file |-> [stem |-> f.stem, id |-> f.id, ts |-> f.ts],
     agentId |-> f.id,
     timestamp |-> f.ts,
     description |-> Trim(f)]

\* one element of updateCurrentTasks' files.map
TaskRecord(f) ==
    [file |-> [stem |-> f.stem, id |-> f.id, ts |-> f.ts],
     agentId |-> IF TaskFileMatch(f) THEN f.id ELSE "unknown",
     timestamp |-> IF TaskFileMatch(f) THEN f.ts ELSE 0,
     description |-> Trim(f)]

\* the orders fs.readdirSync may list a directory in
Listings(dir) ==
    {l \in [1..Cardinality(dir) -> dir] : \A i, j \in DOMAIN l : i # j => l[i] # l[j]}

\* the RepoWatcher constructor's this.state: the fields derived from commits
\* and TaskRecords (completedTaskCount, totalLines, totalCommits and
\* specModules are counts of other files and feed nothing else)
EmptyState == [agents |-> <<>>, commits |-> <<>>, currentTasks |-> <<>>]

\* git log --format=... -30 in a working copy holding the first n origin commits:
\* newest first
GitLog(n) ==
    LET k == IF n < LogWindow THEN n ELSE LogWindow
    IN  [i \in 1..k |-> origin[n - i + 1]]

\* updateCommits forgetting the commits when the log cannot be read
UpdateCommitsClearsOnFailure(lch, st, n, logOk) ==
    IF ~logOk \/ n = 0
    THEN [lch |-> 0, st |-> [st EXCEPT !.commits = <<>>], events |-> <<>>]
    ELSE [lch |-> IF GitLog(n)[1].hash # lch THEN GitLog(n)[1].hash ELSE lch,
          st |-> [st EXCEPT !.commits = GitLog(n)],
          events |-> IF GitLog(n)[1].hash # lch
                     THEN <<[type |-> "newCommit", data |-> GitLog(n)[1]]>>
                     ELSE <<>>]

\* updateCommits without the comparison to lastCommitHash
UpdateCommitsAlwaysNotify(lch, st, n, logOk) ==
    IF ~logOk \/ n = 0
    THEN [lch |-> lch, st |-> st, events |-> <<>>]
    ELSE [lch |-> GitLog(n)[1].hash,
          st |-> [st EXCEPT !.commits = GitLog(n)],
          events |-> <<[type |-> "newCommit", data |-> GitLog(n)[1]]>>]

\* RepoWatcher.updateCommits. logOk: whether execGit('log ...') returned
\* output (execGit answers '' on an error or a timeout).
UpdateCommits(lch, st, n, logOk) ==
    IF ~logOk \/ n = 0
    THEN [lch |-> lch, st |-> st, events |-> <<>>]
    ELSE LET commits == GitLog(n)
             latestHash == commits[1].hash
             changed == latestHash # 0 /\ latestHash # lch
         IN  [lch |-> IF changed THEN latestHash ELSE lch,
              st |-> [st EXCEPT !.commits = commits],
              events |-> IF changed
                         THEN <<[type |-> "newCommit", data |-> commits[1]]>>
                         ELSE <<>>]

\* updateCurrentTasks keeping the list it had when a read fails
UpdateCurrentTasksKeepsOnFailure(st, listing, readOk) ==
    IF readOk
    THEN LET files == SelectSeq(listing, LAMBDA f : f # GitKeep)
         IN  [st EXCEPT !.currentTasks = [i \in DOMAIN files |-> TaskRecord(files[i])]]
    ELSE st

\* RepoWatcher.updateCurrentTasks. listing: what readdirSync returned;
\* readOk: readdirSync and every readFileSync succeeded.
UpdateCurrentTasks(st, listing, readOk) ==
    IF readOk
    THEN LET files == SelectSeq(listing, LAMBDA f : f # GitKeep)
         IN  [st EXCEPT !.currentTasks = [i \in DOMAIN files |-> TaskRecord(files[i])]]
    ELSE [st EXCEPT !.currentTasks = <<>>]

\* a first loop that leaves an agent it already knows as it was
RECURSIVE MarkWorkingNewOnly(_, _)
MarkWorkingNewOnly(agents, tasks) ==
    IF tasks = <<>> THEN agents
    ELSE LET task == Head(tasks)
             id == task.agentId
         IN  MarkWorkingNewOnly(
                 IF id \notin DOMAIN agents
                 THEN agents @@ (id :> [id |-> id, status |-> "working",
                                        currentTask |-> task.description,
                                        commitCount |-> 0, taskCount |-> 0])
                 ELSE agents,
                 Tail(tasks))

\* updateAgentStatus, first loop: this.state.currentTasks.forEach
RECURSIVE MarkWorking(_, _)
MarkWorking(agents, tasks) ==
    IF tasks = <<>> THEN agents
    ELSE LET task == Head(tasks)
             id == task.agentId
         IN  MarkWorking(
                 IF id \notin DOMAIN agents
                 THEN agents @@ (id :> [id |-> id, status |-> "working",
                                        currentTask |-> task.description,
                                        commitCount |-> 0, taskCount |-> 0])
                 ELSE [agents EXCEPT ![id].status = "working",
                                     ![id].currentTask = task.description],
                 Tail(tasks))

\* updateAgentStatus, second loop: this.state.commits.forEach
RECURSIVE CountCommits(_, _, _)
CountCommits(agents, commits, activeAgents) ==
    IF commits = <<>> THEN agents
    ELSE LET commit == Head(commits)
             id == AuthorMatch(commit.author)
             known == IF id \in DOMAIN agents THEN agents
                      ELSE agents @@ (id :> [id |-> id,
                               status |-> IF id \in activeAgents THEN "working" ELSE "idle",
                               currentTask |-> Null,
                               commitCount |-> 0, taskCount |-> 0])
             counted == [known EXCEPT
                            ![id].commitCount = @ + 1,
                            ![id].taskCount = IF IncludesMarker(commit.message)
                                              THEN @ + 1 ELSE @]
         IN  CountCommits(IF id = "" THEN agents ELSE counted, Tail(commits),
                          activeAgents)

\* the third loop without `currentTask = null`
MarkIdleKeepsTask(agents, activeAgents) ==
    [id \in DOMAIN agents |->
        IF id \notin activeAgents
        THEN [agents[id] EXCEPT !.status = "idle"]
        ELSE agents[id]]

\* updateAgentStatus, third loop: agents without current tasks become idle
MarkIdle(agents, activeAgents) ==
    [id \in DOMAIN agents |->
        IF id \notin activeAgents
        THEN [agents[id] EXCEPT !.status = "idle", !.currentTask = Null]
        ELSE agents[id]]

\* RepoWatcher.updateAgentStatus
UpdateAgentStatus(st) ==
    LET activeAgents == {st.currentTasks[i].agentId : i \in DOMAIN st.currentTasks}
    IN  [st EXCEPT !.agents =
            MarkIdle(CountCommits(MarkWorking(st.agents, st.currentTasks),
                                  st.commits, activeAgents),
                     activeAgents)]

\* what one poll may meet: whether the pull and the log succeed, and either a
\* failed ledger read or the order readdirSync lists current_tasks/ in
\* (.gitkeep, always there, is listed first)
Outcomes ==
    {[pull |-> p, log |-> l, read |-> FALSE, listing |-> <<>>] :
         p \in BOOLEAN, l \in BOOLEAN}
    \cup {[pull |-> p, log |-> l, read |-> TRUE, listing |-> <<GitKeep>> \o ls] :
         p \in BOOLEAN, l \in BOOLEAN, ls \in Listings(ledgerDir)}

\* the callbacks registered with onChange: runForge registers one, which
\* broadcasts the event to the dashboard's clients
Listeners == {"broadcast"}

\* RepoWatcher.emit for the events of one poll: every listener is called with
\* every event, in order
Emit(events) == [cb \in Listeners |-> events]

\* poll emitting the snapshot only when the poll changed the state
PollResultOnChange(lch, st, o) ==
    LET n == IF o.pull THEN Len(origin) ELSE wcopy
        uc == UpdateCommits(lch, st, n, o.log)
        st3 == UpdateAgentStatus(UpdateCurrentTasks(uc.st, o.listing, o.read))
    IN  [wcopy |-> n, lch |-> uc.lch, st |-> st3,
         events |-> IF st3 = st THEN uc.events
                    ELSE Append(uc.events, [type |-> "state", data |-> st3]),
         head |-> IF o.log /\ n > 0 THEN GitLog(n)[1].hash ELSE 0,
         read |-> o.read, pull |-> o.pull,
         origin |-> origin, ledger |-> ledgerDir]

\* poll syncing in both directions: a successful sync leaves a commit of the
\* observer's on the origin
PollResultPushes(lch, st, o) ==
    LET n == IF o.pull THEN Len(origin) ELSE wcopy
        uc == UpdateCommits(lch, st, n, o.log)
        st3 == UpdateAgentStatus(UpdateCurrentTasks(uc.st, o.listing, o.read))
    IN  [wcopy |-> n, lch |-> uc.lch, st |-> st3,
         events |-> Append(uc.events, [type |-> "state", data |-> st3]),
         head |-> IF o.log /\ n > 0 THEN GitLog(n)[1].hash ELSE 0,
         read |-> o.read, pull |-> o.pull,
         origin |-> IF o.pull
                    THEN Append(origin, [hash |-> Len(origin) + 1, author |-> HUMAN,
                                         message |-> [marker |-> FALSE]])
                    ELSE origin,
         ledger |-> ledgerDir]

\* a poll that emits its snapshot ahead of updateCommits' event
PollResultStateFirst(lch, st, o) ==
    LET n == IF o.pull THEN Len(origin) ELSE wcopy
        uc == UpdateCommits(lch, st, n, o.log)
        st3 == UpdateAgentStatus(UpdateCurrentTasks(uc.st, o.listing, o.read))
    IN  [wcopy |-> n, lch |-> uc.lch, st |-> st3,
         events |-> <<[type |-> "state", data |-> st3]>> \o uc.events,
         head |-> IF o.log /\ n > 0 THEN GitLog(n)[1].hash ELSE 0,
         read |-> o.read, pull |-> o.pull,
         origin |-> origin, ledger |-> ledgerDir]

\* RepoWatcher.poll from watcher fields lch, st: the pull, the update steps in
\* their order, then emit('state', getState()). Its git commands are
\* `pull --rebase` (the working copy has no commit of its own to replay),
\* `log` and `rev-list`, its file operations readdirSync and readFileSync:
\* the origin and the ledger come out as they went in.
PollResult(lch, st, o) ==
    LET n == IF o.pull THEN Len(origin) ELSE wcopy
        uc == UpdateCommits(lch, st, n, o.log)
        st3 == UpdateAgentStatus(UpdateCurrentTasks(uc.st, o.listing, o.read))
    IN  [wcopy |-> n, lch |-> uc.lch, st |-> st3,
         events |-> Append(uc.events, [type |-> "state", data |-> st3]),
         head |-> IF o.log /\ n > 0 THEN GitLog(n)[1].hash ELSE 0,
         read |-> o.read, pull |-> o.pull,
         origin |-> origin, ledger |-> ledgerDir]

\* the variables a poll writes, given its result r
Polled(r) ==
    /\ origin' = r.origin
    /\ ledgerDir' = r.ledger
    /\ wcopy' = r.wcopy
    /\ lastCommitHash' = r.lch
    /\ wstate' = r.st
    /\ published' = r.events
    /\ ticks' = ticks + 1
    /\ tickHead' = r.head
    /\ tickRead' = r.read
    /\ tickPull' = r.pull
    /\ prevHead' = IF tickHead # 0 THEN tickHead ELSE prevHead
    /\ seen' = seen \cup {r.st.commits[i] : i \in DOMAIN r.st.commits}

\* the interval timer fires: () => this.poll()
TimerPoll ==
    /\ UNCHANGED notWatcher
    /\ timer
    /\ ticks < MaxTicks
    /\ \E o \in Outcomes : Polled(PollResult(lastCommitHash, wstate, o))
    /\ UNCHANGED timer

\* RepoWatcher.start as runForge calls it, once on the new watcher: poll at
\* once, then setInterval
Start ==
    /\ UNCHANGED notWatcher
    /\ ~timer
    /\ ticks = 0
    /\ \E o \in Outcomes : Polled(PollResult(lastCommitHash, wstate, o))
    /\ timer' = TRUE

\* RepoWatcher.stop
Stop ==
    /\ UNCHANGED notWatcher
    /\ timer' = FALSE
    /\ UNCHANGED <<origin, wcopy, ledgerDir, lastCommitHash, wstate,
                   published, ticks, tickHead, tickRead, tickPull,
                   prevHead, seen>>

\* a worker's push reaches the origin (while a poll is still to come)
Push ==
    /\ UNCHANGED notWatcher
    /\ ticks < MaxTicks
    /\ Len(origin) < MaxPushes + 1
    /\ \E k \in PushKinds :
          origin' = Append(origin, [hash |-> Len(origin) + 1, author |-> k[1],
                                    message |-> [marker |-> k[2]]])
    /\ UNCHANGED <<wcopy, ledgerDir, lastCommitHash, timer, wstate,
                   published, ticks, tickHead, tickRead, tickPull,
                   prevHead, seen>>

\* a TaskRecord appears in, or disappears from, current_tasks/ (while a poll
\* is still to come)
LedgerWrite ==
    /\ UNCHANGED notWatcher
    /\ ticks < MaxTicks
    /\ \E f \in TaskFiles :
          ledgerDir' = IF f \in ledgerDir THEN ledgerDir \ {f} ELSE ledgerDir \cup {f}
    /\ UNCHANGED <<origin, wcopy, lastCommitHash, timer, wstate,
                   published, ticks, tickHead, tickRead, tickPull,
                   prevHead, seen>>

\* new RepoWatcher(workDir) on the working copy forge.run() has prepared
WatcherStart ==
    /\ origin = <<InitialCommit>>
    /\ wcopy = 1
    /\ ledgerDir = {}
    /\ lastCommitHash = 0
    /\ timer = FALSE
    /\ wstate = EmptyState
    /\ published = <<>>
    /\ ticks = 0
    /\ tickHead = 0
    /\ tickRead = FALSE
    /\ tickPull = FALSE
    /\ prevHead = 0
    /\ seen = {}

WatcherNext ==
    \/ Start
    \/ Stop
    \/ TimerPoll
    \/ Push
    \/ LedgerWrite

\* --------------------------------------------- watcher.js on the event loop
\* the statements of poll(), in order (lines 74-82)
PollLines == <<"pull", "updateCommits", "updateCurrentTasks",
               "updateCompletedTasks", "updateCodeStats", "updateSpecModules",
               "updateAgentStatus", "emit">>

\* execGit without blocking: the git child process is awaited
ExecGitAsync == FALSE

\* execGit runs git with execSync: the call returns when git has ended (or
\* after the 5 s timeout), and the event loop runs nothing meanwhile
ExecGitBlocks == TRUE

\* the interval expires, whatever the loop is executing; an interval whose
\* callback is still queued queues no second one
TimerExpires ==
    /\ UNCHANGED notLoop
    /\ intervalLive
    /\ ~timerDue
    /\ begun < MaxPolls
    /\ timerDue' = TRUE
    /\ UNCHANGED <<callStack, intervalLive, awaiting, begun, ended>>

\* the event loop, with nothing on the stack, runs a queued callback: the
\* interval's () => this.poll(), or the rest of a poll that awaited git
RunCallback ==
    /\ UNCHANGED notLoop
    /\ callStack = "idle"
    /\ \E cb \in (IF timerDue THEN {"timer"} ELSE {})
                  \cup (IF awaiting > 0 THEN {"resume"} ELSE {}) :
          IF cb = "timer"
          THEN /\ timerDue' = FALSE
               /\ callStack' = PollLines[1]
               /\ begun' = begun + 1
               /\ UNCHANGED awaiting
          ELSE /\ awaiting' = awaiting - 1
               /\ callStack' = PollLines[2]
               /\ UNCHANGED <<timerDue, begun>>
    /\ UNCHANGED <<intervalLive, ended>>

\* RepoWatcher.start called from a callback of its own (runForge): poll() at
\* once on the same stack, then setInterval
LoopStart ==
    /\ UNCHANGED notLoop
    /\ callStack = "idle"
    /\ ~intervalLive
    /\ begun < MaxPolls
    /\ callStack' = PollLines[1]
    /\ begun' = begun + 1
    /\ intervalLive' = TRUE
    /\ UNCHANGED <<timerDue, awaiting, ended>>

\* poll() executes the statement it is at
PollLine ==
    /\ UNCHANGED notLoop
    /\ callStack # "idle"
    /\ LET i == CHOOSE k \in DOMAIN PollLines : PollLines[k] = callStack
       IN  IF i = 1 /\ ~ExecGitBlocks
           THEN /\ callStack' = "idle"
                /\ awaiting' = awaiting + 1
                /\ UNCHANGED ended
           ELSE IF i < Len(PollLines)
           THEN /\ callStack' = PollLines[i + 1]
                /\ UNCHANGED <<awaiting, ended>>
           ELSE /\ callStack' = "idle"
                /\ ended' = ended + 1
                /\ UNCHANGED awaiting
    /\ UNCHANGED <<timerDue, intervalLive, begun>>

\* RepoWatcher.stop called from another callback: clearInterval drops the
\* interval and its queued callback
LoopStop ==
    /\ UNCHANGED notLoop
    /\ callStack = "idle"
    /\ intervalLive
    /\ intervalLive' = FALSE
    /\ timerDue' = FALSE
    /\ UNCHANGED <<callStack, awaiting, begun, ended>>

LoopInit ==
    /\ callStack = "idle"
    /\ timerDue = FALSE
    /\ intervalLive = FALSE
    /\ awaiting = 0
    /\ begun = 0
    /\ ended = 0

LoopNext ==
    \/ LoopStart
    \/ TimerExpires
    \/ RunCallback
    \/ PollLine
    \/ LoopStop

\* ------------------------------------------------------------ agent loop
\* the worker containers, each running the loop script on its own clone
Workers == {"agent-1", "agent-2"}

\* outcome of a command the script runs: exit status zero or not
CommandOk == IF failures < MaxFailures THEN BOOLEAN ELSE {TRUE}

\* a command that failed is counted
Ran(ok) == failures' = IF ok THEN failures ELSE failures + 1

\* exit statuses of the executor process: success or a crash
ExecutorStatuses == {0, 1}

\* `set -e`: a failing command outside a `||` list ends the script
Exit(w) == pc' = [pc EXCEPT ![w] = "exited"]

Goto(w, line) == pc' = [pc EXCEPT ![w] = line]

\* lines 28-32: count the iteration and write the two log lines; log() is
\* `echo | tee -a`, which fails under pipefail when the log file cannot be
\* appended to
LogIteration(w) ==
    /\ pc[w] = "iter"
    /\ \E ok \in CommandOk :
         /\ Ran(ok)
         /\ IF ok THEN Goto(w, "cd") ELSE Exit(w)
    /\ conflicted' = [conflicted EXCEPT ![w] = FALSE]
    /\ execs' = [execs EXCEPT ![w] = 0]
    /\ UNCHANGED <<remote, tracking, base, ahead, claudeStatus, exitCode>>
    /\ UNCHANGED resetAt
    /\ UNCHANGED notWorker

\* line 33: cd /work/project
ChangeDir(w) ==
    /\ pc[w] = "cd"
    /\ \E ok \in CommandOk :
         /\ Ran(ok)
         /\ IF ok THEN Goto(w, "fetch") ELSE Exit(w)
    /\ UNCHANGED <<remote, tracking, base, ahead, conflicted, claudeStatus, exitCode, execs>>
    /\ UNCHANGED resetAt
    /\ UNCHANGED notWorker

\* line 34: git fetch origin || true
GitFetch(w) ==
    /\ pc[w] = "fetch"
    /\ \E ok \in CommandOk :
         /\ Ran(ok)
         /\ tracking' = [tracking EXCEPT ![w] = IF ok THEN remote ELSE @]
    /\ Goto(w, "pull")
    /\ UNCHANGED <<remote, base, ahead, conflicted, claudeStatus, exitCode, execs>>
    /\ UNCHANGED resetAt
    /\ UNCHANGED notWorker

\* line 35: git pull --rebase origin main; it fetches main and replays the
\* local commits on it.  "conflict": fetched, the replay stopped;
\* "error": nothing fetched (unreachable origin, lock, dirty tree)
GitPullRebase(w) ==
    /\ pc[w] = "pull"
    /\ \E outcome \in {"ok", "conflict", "error"} :
         CASE outcome = "ok" ->
                /\ Ran(TRUE)
                /\ tracking' = [tracking EXCEPT ![w] = remote]
                /\ base' = [base EXCEPT ![w] = remote]
                /\ conflicted' = conflicted
                /\ Goto(w, "loginvoke")
           [] outcome = "conflict" ->
                /\ ahead[w] > 0
                /\ remote > base[w]
                /\ Ran(TRUE)
                /\ tracking' = [tracking EXCEPT ![w] = remote]
                /\ base' = base
                /\ conflicted' = [conflicted EXCEPT ![w] = TRUE]
                /\ Goto(w, "logconflict")
           [] outcome = "error" ->
                /\ FALSE \in CommandOk
                /\ Ran(FALSE)
                /\ UNCHANGED <<tracking, base>>
                /\ conflicted' = [conflicted EXCEPT ![w] = TRUE]
                /\ Goto(w, "logconflict")
    /\ UNCHANGED <<remote, ahead, claudeStatus, exitCode, execs>>
    /\ resetAt' = [resetAt EXCEPT ![w] = -1]
    /\ UNCHANGED notWorker

\* line 36: log "Rebase conflict detected ..." inside the `|| { }` block,
\* where `set -e` is in force again
LogConflict(w) ==
    /\ pc[w] = "logconflict"
    /\ \E ok \in CommandOk :
         /\ Ran(ok)
         /\ IF ok THEN Goto(w, "abort") ELSE Exit(w)
    /\ UNCHANGED <<remote, tracking, base, ahead, conflicted, claudeStatus, exitCode, execs>>
    /\ UNCHANGED resetAt
    /\ UNCHANGED notWorker

\* line 37: git rebase --abort || true; the branch is back where the pull
\* found it whether or not a rebase was in progress
RebaseAbort(w) ==
    /\ pc[w] = "abort"
    /\ Goto(w, "reset")
    /\ UNCHANGED <<remote, tracking, base, ahead, conflicted, claudeStatus, exitCode, execs>>
    /\ UNCHANGED failures
    /\ UNCHANGED resetAt
    /\ UNCHANGED notWorker

\* line 38: git reset --hard origin/main || true
GitResetHard(w) ==
    /\ pc[w] = "reset"
    /\ \E ok \in CommandOk :
         /\ Ran(ok)
         /\ IF ok
            THEN /\ base' = [base EXCEPT ![w] = tracking[w]]
                 /\ ahead' = [ahead EXCEPT ![w] = 0]
            ELSE UNCHANGED <<base, ahead>>
    /\ Goto(w, "backoff")
    /\ UNCHANGED <<remote, tracking, conflicted, claudeStatus, exitCode, execs>>
    /\ UNCHANGED resetAt
    /\ UNCHANGED notWorker

\* lines 39-40: sleep 3; continue
Backoff(w) ==
    /\ pc[w] = "backoff"
    /\ Goto(w, "iter")
    /\ UNCHANGED <<remote, tracking, base, ahead, conflicted, claudeStatus, exitCode, execs>>
    /\ UNCHANGED failures
    /\ resetAt' = [resetAt EXCEPT ![w] = remote]
    /\ UNCHANGED notWorker

\* line 44: log "Invoking Claude..."
LogInvoke(w) ==
    /\ pc[w] = "loginvoke"
    /\ \E ok \in CommandOk :
         /\ Ran(ok)
         /\ IF ok THEN Goto(w, "exec") ELSE Exit(w)
    /\ UNCHANGED <<remote, tracking, base, ahead, conflicted, claudeStatus, exitCode, execs>>
    /\ UNCHANGED resetAt
    /\ UNCHANGED notWorker

\* lines 45-48: claude ... | tee -a "$LOG_FILE" || true.  The executor may
\* commit to the clone and may push what the clone holds when the push is a
\* fast-forward of origin/main; it ends with any exit status
Executor(w) ==
    /\ pc[w] = "exec"
    /\ \E commits \in 0..(MaxAhead - ahead[w]), push \in BOOLEAN,
          st \in ExecutorStatuses :
         LET held == ahead[w] + commits
         IN  /\ push => /\ held > 0
                        /\ base[w] = remote
                        /\ remote + held <= MaxRemote
             /\ remote' = IF push THEN remote + held ELSE remote
             /\ base' = [base EXCEPT ![w] = IF push THEN remote + held ELSE @]
             /\ tracking' =
                  [tracking EXCEPT ![w] = IF push THEN remote + held ELSE @]
             /\ ahead' = [ahead EXCEPT ![w] = IF push THEN 0 ELSE held]
             /\ claudeStatus' = [claudeStatus EXCEPT ![w] = st]
    /\ execs' = [execs EXCEPT ![w] = @ + 1]
    /\ Goto(w, "record")
    /\ UNCHANGED <<conflicted, exitCode>>
    /\ UNCHANGED failures
    /\ UNCHANGED resetAt
    /\ UNCHANGED notWorker

\* line 50: EXIT_CODE=${PIPESTATUS[0]:-$?} read after the `||` list.  When
\* the pipeline succeeded PIPESTATUS is the pipeline's, whose first entry is
\* the executor's status; when it failed, `true` ran last and PIPESTATUS is
\* the one-element status of `true`
ExitCodeRead(st, teeOk) ==
    IF st = 0 /\ teeOk THEN st ELSE 0

\* lines 50-51: record and log the exit code (claudeStatus is kept only while it
\* is being recorded)
RecordExit(w) ==
    /\ pc[w] = "record"
    /\ \E teeOk \in BOOLEAN, ok \in CommandOk :
         /\ Ran(ok)
         /\ exitCode' = [exitCode EXCEPT ![w] = ExitCodeRead(claudeStatus[w], teeOk)]
         /\ IF ok THEN Goto(w, "cooldown") ELSE Exit(w)
    /\ claudeStatus' = [claudeStatus EXCEPT ![w] = 0]
    /\ UNCHANGED <<remote, tracking, base, ahead, conflicted, execs>>
    /\ UNCHANGED resetAt
    /\ UNCHANGED notWorker

\* line 54: sleep 5, then the next iteration
Cooldown(w) ==
    /\ pc[w] = "cooldown"
    /\ Goto(w, "iter")
    /\ UNCHANGED <<remote, tracking, base, ahead, conflicted, claudeStatus, exitCode, execs>>
    /\ UNCHANGED failures
    /\ UNCHANGED resetAt
    /\ UNCHANGED notWorker

\* docker-manager.js RestartPolicy 'unless-stopped': Docker starts the
\* container of an ended script again; the script logs its first line and
\* changes to the clone it finds in /work/project (lines 12-25), and ends
\* again if either fails
Restart(w) ==
    /\ pc[w] = "exited"
    /\ \E ok \in CommandOk :
         /\ Ran(ok)
         /\ IF ok THEN Goto(w, "iter") ELSE UNCHANGED pc
    /\ UNCHANGED <<remote, tracking, base, ahead, conflicted, claudeStatus, exitCode, execs>>
    /\ UNCHANGED resetAt
    /\ UNCHANGED notWorker

\* lines 12-25: the clone is fresh and the script is about to enter the loop
WorkerStart ==
    /\ remote = 0
    /\ pc = [w \in Workers |-> "iter"]
    /\ tracking = [w \in Workers |-> 0]
    /\ base = [w \in Workers |-> 0]
    /\ ahead = [w \in Workers |-> 0]
    /\ conflicted = [w \in Workers |-> FALSE]
    /\ claudeStatus = [w \in Workers |-> 0]
    /\ exitCode = [w \in Workers |-> -1]
    /\ execs = [w \in Workers |-> 0]
    /\ resetAt = [w \in Workers |-> -1]
    /\ failures = 0

\* one step of worker w's script
WorkerStep(w) ==
    \/ LogIteration(w)
    \/ ChangeDir(w)
    \/ GitFetch(w)
    \/ GitPullRebase(w)
    \/ LogConflict(w)
    \/ RebaseAbort(w)
    \/ GitResetHard(w)
    \/ Backoff(w)
    \/ LogInvoke(w)
    \/ Executor(w)
    \/ RecordExit(w)
    \/ Cooldown(w)
    \/ Restart(w)

WorkerNext == \E w \in Workers : WorkerStep(w)

\* ------------------------------------------------- session.js: Session.logs
\* addLog keeps at most this many entries (`this.logs.length > 500`)
LogCap == 500

\* toJSON exposes at most this many (`this.logs.slice(-50)`)
LogTail == 50

\* the messages logged: by forge.run() through onProgress, and by
\* launchAgents through logForge
LogSources == {"forge", "docker"}

\* Array.prototype.slice(-k): the last k elements, or all when there are fewer
SliceLast(seq, k) ==
    IF Len(seq) <= k THEN seq ELSE SubSeq(seq, Len(seq) - k + 1, Len(seq))

\* addLog evicting the entry it has just pushed
AddLogDropsNewest(list, entry) ==
    LET pushed == Append(list, entry)
    IN  IF Len(pushed) > LogCap THEN SubSeq(pushed, 1, LogCap) ELSE pushed

\* Session.addLog on the list `list`: push, then shift when over the cap
AddLog(list, entry) ==
    LET pushed == Append(list, entry)
    IN  IF Len(pushed) > LogCap THEN Tail(pushed) ELSE pushed

\* Session.toJSON, its logs field
ToJSON(list) == SliceLast(list, LogTail)

\* a log line is added and the session is broadcast: the entry carries the
\* clock (the calls so far stand for Date.now()) and the message
Logged(message) ==
    LET entry == [time |-> Len(added) + 1, message |-> message]
    IN  /\ Len(added) < MaxLogs
        /\ logs' = AddLog(logs, entry)
        /\ added' = Append(added, entry)
        /\ serialized' = ToJSON(logs')
        /\ UNCHANGED notLog

\* runForge.onProgress with progress.type 'log' (while forge.run() is going)
ProgressLog ==
    /\ Len(added) < MaxProgressLogs
    /\ \A i \in DOMAIN added : added[i].message = "forge"
    /\ Logged("forge")

\* runForge's logForge, called by launchAgents for every line it reports
LogForge == Logged("docker")

\* new Session(...)
LogStart ==
    /\ logs = <<>>
    /\ added = <<>>
    /\ serialized = <<>>

LogNext == ProgressLog \/ LogForge

\* ------------------------------------- watcher.js: start, stop and reset
\* the body of RepoWatcher.stop: `if (this.timer) { clearInterval(this.timer);
\* this.timer = null; }`
StopBody ==
    IF timerId # 0
    THEN [timerId |-> 0, intervals |-> intervals \ {timerId}]
    ELSE [timerId |-> timerId, intervals |-> intervals]

\* the body of RepoWatcher.start on a watcher whose fields are w: poll(),
\* then `this.timer = setInterval(...)`
StartBody(w) ==
    /\ created < MaxStarts
    /\ pollCount < MaxLifePolls
    /\ pollCount' = pollCount + 1
    /\ created' = created + 1
    /\ timerId' = created + 1
    /\ intervals' = w.intervals \cup {created + 1}
    /\ halted' = FALSE

\* RepoWatcher.start()
CallStart ==
    /\ StartBody([timerId |-> timerId, intervals |-> intervals])
    /\ UNCHANGED notLife

\* RepoWatcher.stop()
CallStop ==
    /\ timerId' = StopBody.timerId
    /\ intervals' = StopBody.intervals
    /\ halted' = TRUE
    /\ UNCHANGED <<created, pollCount>>
    /\ UNCHANGED notLife

\* RepoWatcher.reset(newRepoPath): stop(), new path and empty state, start()
CallReset ==
    /\ StartBody(StopBody)
    /\ UNCHANGED notLife

\* an interval that was not cleared fires: () => this.poll()
IntervalFires ==
    /\ \E id \in intervals : pollCount < MaxLifePolls
    /\ pollCount' = pollCount + 1
    /\ UNCHANGED <<timerId, intervals, created, halted>>
    /\ UNCHANGED notLife

\* new RepoWatcher(repoPath)
LifeStart ==
    /\ timerId = 0
    /\ intervals = {}
    /\ created = 0
    /\ pollCount = 0
    /\ halted = FALSE

LifeNext == CallStart \/ CallStop \/ CallReset \/ IntervalFires

\* ------------------------- server.js and docker-manager.js: the fleet size
\* the agentCount values of request bodies: none, text without leading
\* digits, and numbers given by their integer part n and whether a fraction
\* follows it (2.5 is n = 2 with a fraction, -0.5 and 0.5 are n = 0 with one)
Requests ==
    {[kind |-> k, n |-> 0, frac |-> FALSE] : k \in {"missing", "text"}}
    \cup {[kind |-> "num", n |-> n, frac |-> f] :
              n \in (0 - MaxBelow)..MaxRequested, f \in BOOLEAN}

\* POST /api/forge: the count is clamped and the session created with it
FleetCreate ==
    /\ fleetPc = "request"
    /\ fleetCount' = ClampCount(request)
    /\ fleetPc' = "launching"
    /\ UNCHANGED <<request, started>>
    /\ UNCHANGED notFleet

\* DockerManager.launchAgents, one turn of `for (let i = 1; i <= agentCount;
\* i++)`: createContainer and start for agent i, which resolve or reject
FleetLaunch ==
    /\ fleetPc = "launching"
    /\ LET i == Len(started) + 1
       IN  \E ok \in BOOLEAN :
              IF ok
              THEN /\ started' = Append(started, i)
                   /\ fleetPc' = IF i < fleetCount THEN "launching" ELSE "launched"
              ELSE /\ fleetPc' = "failed"
                   /\ UNCHANGED started
    /\ UNCHANGED <<request, fleetCount>>
    /\ UNCHANGED notFleet

\* no request has been made
FleetIdle ==
    /\ request = [kind |-> "missing", n |-> 0, frac |-> FALSE]
    /\ fleetCount = 0
    /\ started = <<>>
    /\ fleetPc = "request"

\* a request arrives with any agentCount
FleetStart ==
    /\ request \in Requests
    /\ fleetCount = 0
    /\ started = <<>>
    /\ fleetPc = "request"

FleetNext == FleetCreate \/ FleetLaunch

\* ---------------------------------------------------------- specifications
SessionInit == SessionStart /\ WatcherStart /\ WorkerStart /\ LoopInit /\ LogStart /\ LifeStart /\ FleetIdle
SessionSpec == SessionInit /\ [][SessionNext]_vars

WatcherInit == WatcherStart /\ SessionStart /\ WorkerStart /\ LoopInit /\ LogStart /\ LifeStart /\ FleetIdle
WatcherSpec == WatcherInit /\ [][WatcherNext]_vars

WorkerInit == WorkerStart /\ SessionStart /\ WatcherStart /\ LoopInit /\ LogStart /\ LifeStart /\ FleetIdle
WorkerSpec == WorkerInit /\ [][WorkerNext]_vars

EventLoopInit == LoopInit /\ SessionStart /\ WatcherStart /\ WorkerStart /\ LogStart /\ LifeStart /\ FleetIdle
EventLoopSpec == EventLoopInit /\ [][LoopNext]_vars

LogInit == LogStart /\ SessionStart /\ WatcherStart /\ WorkerStart /\ LoopInit /\ LifeStart /\ FleetIdle
LogSpec == LogInit /\ [][LogNext]_vars

LifecycleInit ==
    LifeStart /\ SessionStart /\ WatcherStart /\ WorkerStart /\ LoopInit /\ LogStart /\ FleetIdle
LifecycleSpec == LifecycleInit /\ [][LifeNext]_vars

FleetInit ==
    FleetStart /\ SessionStart /\ WatcherStart /\ WorkerStart /\ LoopInit /\ LogStart
        /\ LifeStart
FleetSpec == FleetInit /\ [][FleetNext]_vars

\* every container keeps running its script: a worker that can take a step
\* eventually takes one (and, failures being bounded, commands that are tried
\* again eventually succeed)
FairWorkerSpec == WorkerSpec /\ \A w \in Workers : WF_vars(WorkerStep(w))

\* ======================================================================
\* Claims about the SessionController (checked under SessionSpec)
\* ======================================================================
NonStopped == {s \in DOMAIN sessions : sessions[s].status # STOPPED}

\* C1: a create request made while a non-stopped session exists is answered
\* with the conflict error (409), the branch of the handler that changes no
\* session, pointer, bootstrap, container or watcher.
C1_CreateConflict == NonStopped # {} => ForgeResponse = 409

\* C2: in every reachable state at most one session has a status other than
\* stopped, whatever the interleaving of create, stop and the progress
\* callbacks of bootstraps still in flight.
C2_SingleNonStopped == Cardinality(NonStopped) <= 1

\* ======================================================================
\* Claims about the Reconciler (checked under WatcherSpec)
\* ======================================================================
\* a step of the specification in which a poll ran
PollStep == ticks' = ticks + 1

\* the workers the claims range over
WorkerIds == {"1", "2"}

\* the TaskRecords of current_tasks/ whose name carries worker k's id
RecordsOf(k) == {f \in ledgerDir : TaskFileMatch(f) /\ f.id = k}

\* C3: a poll that reads the same commits as the poll before it leaves
\* commitCount and taskCount of every worker as they were.
C3_PollInvariantCounters ==
    [][PollStep /\ ticks >= 1 /\ wstate'.commits = wstate.commits
       => \A k \in DOMAIN wstate.agents :
             /\ wstate'.agents[k].commitCount = wstate.agents[k].commitCount
             /\ wstate'.agents[k].taskCount = wstate.agents[k].taskCount]_vars

\* C4 as claimed: a poll taken while a TaskRecord of worker k is in
\* current_tasks/ publishes agents[k] working with that record's description
\* as currentTask; a poll taken while no record names a known worker k
\* publishes agents[k] idle with currentTask null.
C4_TaskStatusAsClaimed ==
    [][PollStep
       => /\ \A f \in ledgerDir : TaskFileMatch(f) =>
                /\ f.id \in DOMAIN wstate'.agents
                /\ wstate'.agents[f.id].status = "working"
                /\ wstate'.agents[f.id].currentTask = Trim(f)
          /\ \A k \in WorkerIds \cap DOMAIN wstate'.agents : RecordsOf(k) = {} =>
                /\ wstate'.agents[k].status = "idle"
                /\ wstate'.agents[k].currentTask = Null]_vars

\* C4 amended: when the poll's ledger read succeeds, every worker k with a
\* TaskRecord in current_tasks/ is published working, its currentTask the
\* trimmed content of the record of k that readdirSync listed last; a known
\* worker that no record names, and every known worker when the ledger read
\* fails, is published idle with currentTask null.
C4_TaskStatus ==
    [][PollStep
       => LET agents == wstate'.agents
              tasks == wstate'.currentTasks
          IN  /\ tickRead' => \A k \in WorkerIds : RecordsOf(k) # {} =>
                    /\ k \in DOMAIN agents
                    /\ agents[k].status = "working"
                    /\ \E i \in DOMAIN tasks :
                          /\ tasks[i].agentId = k
                          /\ \A j \in DOMAIN tasks : j > i => tasks[j].agentId # k
                          /\ agents[k].currentTask = tasks[i].description
                    /\ \E f \in RecordsOf(k) : agents[k].currentTask = Trim(f)
              /\ \A k \in WorkerIds \cap DOMAIN agents :
                    (~tickRead' \/ RecordsOf(k) = {}) =>
                       /\ agents[k].status = "idle"
                       /\ agents[k].currentTask = Null]_vars

\* C4's case: worker 1, known only from a TaskRecord an earlier poll read (no
\* commit of agent-1 was ever seen), is published idle by the second poll
C4_Witness ==
    /\ ticks = 2
    /\ tickRead
    /\ "1" \in DOMAIN wstate.agents
    /\ wstate.agents["1"].status = "idle"
    /\ wstate.agents["1"].currentTask = Null
    /\ \A c \in seen : AuthorMatch(c.author) # "1"

\* C9: after any number of polls, commitCount of worker k is the number of
\* distinct commits by agent-k seen so far, and taskCount the number of those
\* whose message carries the completion marker.
C9_CountersCountDistinctCommits ==
    \A k \in WorkerIds :
        LET mine == {c \in seen : AuthorMatch(c.author) = k}
        IN  mine # {} =>
               /\ k \in DOMAIN wstate.agents
               /\ wstate.agents[k].commitCount = Cardinality(mine)
               /\ wstate.agents[k].taskCount =
                      Cardinality({c \in mine : IncludesMarker(c.message)})

\* the newCommit events of the latest poll
NewCommits == SelectSeq(published, LAMBDA e : e.type = "newCommit")

\* C10: a poll emits newCommit exactly when the head hash it reads differs
\* from the head hash read before it; it emits at most one, carrying the
\* newest commit, so a commit that is not the head when a poll reads the log
\* is never notified.
C10_NewCommitEdgeTriggered ==
    ticks >= 1 =>
        /\ Len(NewCommits) <= 1
        /\ Len(NewCommits) = 1 <=> (tickHead # 0 /\ tickHead # prevHead)
        /\ Len(NewCommits) = 1 =>
              /\ NewCommits[1].data.hash = tickHead
              /\ NewCommits[1].data = origin[wcopy]
              /\ NewCommits[1].data = wstate.commits[1]

\* C10's case: two commits arrived between two polls; the later poll notifies
\* the head (hash 3) and not the commit before it (hash 2)
C10_Witness ==
    /\ ticks = 2
    /\ prevHead = 1
    /\ tickHead = 3
    /\ Len(NewCommits) = 1
    /\ NewCommits[1].data.hash = 3

\* ======================================================================
\* Claims about the agent loop (checked under WorkerSpec / FairWorkerSpec)
\* ======================================================================
\* worker w's clone equals the remote head
Converged(w) == base[w] = remote /\ ahead[w] = 0

\* the script lines that make up the Executing state of the loop
ExecutingLines == {"loginvoke", "exec", "record"}

\* C5: once pushes have stopped arriving at the origin (it holds every
\* commit it is going to get), the loop of each worker eventually reaches a
\* point where its local branch equals the remote head.
C5_Converges == \A w \in Workers : (remote = MaxRemote) ~> Converged(w)

\* C6: in an iteration whose rebase failed the loop never enters Executing
\* and does not stop; at the backoff and when it re-enters Syncing its local
\* commits are discarded and its branch is the remote head it fetched.
C6_ConflictResets ==
    \A w \in Workers :
        conflicted[w] =>
            /\ pc[w] \notin ExecutingLines \cup {"exited"}
            /\ pc[w] \in {"backoff", "iter"} =>
                   ahead[w] = 0 /\ base[w] = tracking[w]

\* C7: no failure of a command inside an iteration ends the loop: no worker
\* is ever at the end of its script.
C7_NeverExits == \A w \in Workers : pc[w] # "exited"

\* C8: an executor run that failed (non-zero exit status) is followed by the
\* cooldown, and the exit code recorded for it is the executor's.
C8_RecordsExit ==
    [][\A w \in Workers :
          pc[w] = "record" /\ claudeStatus[w] # 0 /\ pc'[w] # "record" =>
              /\ pc'[w] = "cooldown"
              /\ exitCode'[w] = claudeStatus[w]]_vars

\* C22: an iteration whose pull succeeded has pushed the clone's local
\* commits by the time the loop starts the next iteration: none is left
\* unpushed when the cooldown ends.
C22_LoopPublishes ==
    [][\A w \in Workers :
          pc[w] = "cooldown" /\ pc'[w] = "iter" => ahead'[w] = 0]_vars

\* worker w's iteration is past a pull that succeeded
SyncSucceeded(w) == ~conflicted[w] /\ pc[w] \notin {"iter", "cd", "fetch", "pull", "exited"}

\* worker w's iteration ends: the loop starts over or the script ends
IterationEnds(w) == pc[w] \notin {"iter", "exited"} /\ pc'[w] \in {"iter", "exited"}

\* C24: an iteration runs the executor at most once, never after a pull that
\* failed, and an iteration whose pull succeeded has run it once when it ends.
C24_ExecutorOncePerIteration ==
    [][\A w \in Workers :
          /\ execs'[w] <= 1
          /\ execs'[w] > execs[w] => ~conflicted[w]
          /\ IterationEnds(w) /\ conflicted[w] => execs'[w] = 0
          /\ IterationEnds(w) /\ SyncSucceeded(w) => execs'[w] = 1]_vars

\* C33: a worker that has ended a conflict recovery and pulls while the
\* origin is still at the same head, the pull reaching the origin, passes
\* that pull and goes on to the executor.
C33_OneRetryPerHead ==
    [][\A w \in Workers :
          /\ pc[w] = "pull" /\ pc'[w] # "pull"
          /\ resetAt[w] = remote
          /\ failures' = failures
          => pc'[w] = "loginvoke"]_vars

\* ======================================================================
\* Further claims about the Reconciler (checked under WatcherSpec)
\* ======================================================================
\* the state snapshots among the events a listener received from the latest poll
Snapshots(cb) == SelectSeq(Emit(published)[cb], LAMBDA e : e.type = "state")

\* C11: every poll hands every listener exactly one state snapshot, as the
\* last event of the poll, carrying the state all update steps of that poll
\* produced, whether or not the state changed.
C11_OneSnapshotPerTick ==
    ticks >= 1 =>
        \A cb \in Listeners :
            LET got == Emit(published)[cb]
            IN  /\ Len(Snapshots(cb)) = 1
                /\ got[Len(got)].type = "state"
                /\ Snapshots(cb)[1].data = wstate

\* C11's case: a second poll that found nothing new (same head, no task
\* record, no agent) still published its snapshot and nothing else
C11_Witness ==
    /\ ticks = 2
    /\ tickHead = 1
    /\ prevHead = 1
    /\ wstate.agents = <<>>
    /\ wstate.currentTasks = <<>>
    /\ \A cb \in Listeners :
          /\ Len(Emit(published)[cb]) = 1
          /\ Emit(published)[cb][1] = [type |-> "state", data |-> wstate]

FileName(f) == [stem |-> f.stem, id |-> f.id, ts |-> f.ts]

\* C17: a poll that reads the ledger reports every file of current_tasks/
\* once: a file whose name does not match agent-<digits>-<digits> with agent
\* id "unknown" and timestamp 0, every other file with the id and timestamp
\* of its name; and the poll publishes the snapshot holding these records.
C17_MalformedNameDegrades ==
    [][PollStep /\ tickRead'
       => LET tasks == wstate'.currentTasks
          IN  /\ Len(tasks) = Cardinality(ledgerDir)
              /\ \A f \in ledgerDir :
                    \E i \in DOMAIN tasks :
                       /\ tasks[i].file = FileName(f)
                       /\ tasks[i].agentId = IF TaskFileMatch(f) THEN f.id ELSE "unknown"
                       /\ tasks[i].timestamp = IF TaskFileMatch(f) THEN f.ts ELSE 0
              /\ published'[Len(published')] = [type |-> "state", data |-> wstate']]_vars

\* C17's case: the ledger read by the latest poll held a file with a
\* malformed name next to a well-formed record, and both are reported
C17_Witness ==
    /\ ticks >= 1
    /\ tickRead
    /\ \E i, j \in DOMAIN wstate.currentTasks :
          /\ wstate.currentTasks[i].agentId = "unknown"
          /\ wstate.currentTasks[i].timestamp = 0
          /\ wstate.currentTasks[i].file.stem = "notes"
          /\ wstate.currentTasks[j].agentId = "1"
          /\ wstate.currentTasks[j].timestamp = 100
    /\ published[Len(published)] = [type |-> "state", data |-> wstate]

\* the latest poll published its snapshot, after every update step
SnapshotPublished == published'[Len(published')] = [type |-> "state", data |-> wstate']

\* C18 as claimed: a poll whose pull or whose log fails keeps the commits
\* list and the head hash it had, emits no newCommit, and still publishes.
C18_FailureSwallowedAsClaimed ==
    [][PollStep /\ (~tickPull' \/ tickHead' = 0)
       => /\ wstate'.commits = wstate.commits
          /\ lastCommitHash' = lastCommitHash
          /\ Len(published') = 1
          /\ SnapshotPublished]_vars

\* C18 amended: a poll whose log fails keeps the commits list and the head
\* hash it had and emits no newCommit; a poll whose pull fails leaves the
\* working copy as it was and reads the history from it, emitting newCommit
\* only if that copy's head is not the head last observed; either way the
\* poll reads the ledger and publishes its snapshot.
C18_FailureSwallowed ==
    [][PollStep
       => /\ tickHead' = 0 =>
                /\ wstate'.commits = wstate.commits
                /\ lastCommitHash' = lastCommitHash
                /\ Len(published') = 1
          /\ ~tickPull' =>
                /\ wcopy' = wcopy
                /\ tickHead' # 0 =>
                      /\ wstate'.commits = GitLog(wcopy)
                      /\ Len(published') = 2 <=> GitLog(wcopy)[1].hash # lastCommitHash
          /\ tickRead' => Len(wstate'.currentTasks) = Cardinality(ledgerDir)
          /\ SnapshotPublished]_vars

\* C18's case: the first poll could not read the history (no head observed)
\* while a push had arrived; the second poll tried again, synced, and
\* notified the new head
C18_Witness ==
    /\ ticks = 2
    /\ prevHead = 0
    /\ tickPull
    /\ tickHead = 2
    /\ Len(origin) = 2
    /\ Len(published) = 2
    /\ published[1] = [type |-> "newCommit", data |-> origin[2]]

\* the agents map a reconciler that has run no earlier poll derives from the
\* commits and TaskRecords of the latest snapshot
FreshAgents ==
    UpdateAgentStatus([EmptyState EXCEPT !.commits = wstate.commits,
                                         !.currentTasks = wstate.currentTasks]).agents

\* C21: the agents map a poll publishes is the one a newly constructed
\* reconciler derives from the same commits and TaskRecords: it does not
\* depend on the polls run before.
C21_AgentsArePureView == ticks >= 1 => wstate.agents = FreshAgents

\* the agent ids the TaskRecords of a snapshot reference
Referenced(snap) == {snap.currentTasks[j].agentId : j \in DOMAIN snap.currentTasks}

\* C23: in every snapshot a listener receives, an agent is working exactly
\* when a TaskRecord of that snapshot references its id, and an idle agent
\* has no currentTask.
C23_WorkingIffReferenced ==
    \A cb \in Listeners : \A i \in DOMAIN Snapshots(cb) :
        LET snap == Snapshots(cb)[i].data
        IN  \A id \in DOMAIN snap.agents :
               /\ snap.agents[id].status = "working" <=> id \in Referenced(snap)
               /\ snap.agents[id].status = "idle" => snap.agents[id].currentTask = Null

\* C23's case: the second poll's snapshot lists worker 2, known only as a
\* commit author, idle; the agent of the malformed record the first poll
\* read, since removed, idle; and worker 1, referenced by a record, working
C23_Witness ==
    /\ ticks = 2
    /\ Referenced(wstate) = {"1"}
    /\ DOMAIN wstate.agents = {"1", "2", "unknown"}
    /\ wstate.agents["1"].status = "working"
    /\ wstate.agents["2"].status = "idle"
    /\ wstate.agents["unknown"].status = "idle"
    /\ \A c \in seen : AuthorMatch(c.author) # "1"
    /\ \A cb \in Listeners : Snapshots(cb)[1].data = wstate

\* C25: a poll that read a head other than the head read before hands every
\* listener the newCommit event first and the snapshot after it, and the
\* event's commit is the first entry of that snapshot's commits list.
C25_NewCommitBeforeSnapshot ==
    ticks >= 1 /\ tickHead # 0 /\ tickHead # prevHead =>
        \A cb \in Listeners :
            LET got == Emit(published)[cb]
            IN  /\ Len(got) = 2
                /\ got[1].type = "newCommit"
                /\ got[2].type = "state"
                /\ got[1].data = got[2].data.commits[1]

\* C25's case: the second poll found a pushed commit on top of the scaffold
\* commit and published newCommit with it, then the snapshot listing it first
C25_Witness ==
    /\ ticks = 2
    /\ prevHead = 1
    /\ tickHead = 2
    /\ \A cb \in Listeners :
          /\ Emit(published)[cb][1].type = "newCommit"
          /\ Emit(published)[cb][1].data.hash = 2
          /\ Emit(published)[cb][2].data.commits[1].hash = 2
          /\ Len(Emit(published)[cb][2].data.commits) = 2

\* C32: a poll in which the read of current_tasks/ or of one of its records
\* fails reports no current task and every known agent idle, and publishes
\* its snapshot; a poll in which every read succeeds reports the records the
\* directory holds, whatever the poll before it met.
C32_ReadFailureEmptiesTasks ==
    [][PollStep =>
          /\ ~tickRead' =>
                /\ wstate'.currentTasks = <<>>
                /\ \A id \in DOMAIN wstate'.agents :
                      /\ wstate'.agents[id].status = "idle"
                      /\ wstate'.agents[id].currentTask = Null
                /\ SnapshotPublished
          /\ tickRead' =>
                {wstate'.currentTasks[i] : i \in DOMAIN wstate'.currentTasks}
                    = {TaskRecord(f) : f \in ledgerDir}]_vars

\* C32's case: worker 1, known from the record the first poll read, is
\* reported idle by the second poll, whose read failed with the record
\* still in the directory
C32_Witness ==
    /\ ticks = 2
    /\ ~tickRead
    /\ \E f \in ledgerDir : TaskFileMatch(f) /\ f.id = "1"
    /\ wstate.currentTasks = <<>>
    /\ "1" \in DOMAIN wstate.agents
    /\ wstate.agents["1"].status = "idle"
    /\ \A c \in seen : AuthorMatch(c.author) # "1"
    /\ published[Len(published)] = [type |-> "state", data |-> wstate]

\* ======================================================================
\* Further claims about the SessionController (checked under SessionSpec)
\* ======================================================================
\* C12: a session whose status is stopped keeps that status in every later
\* step, whatever the step is (progress callback, bootstrap completion,
\* bootstrap failure, stop).
C12_StoppedIsTerminal ==
    [][\A s \in DOMAIN sessions :
          sessions[s].status = STOPPED => sessions'[s].status = STOPPED]_vars

\* a step in which sessionManager.create made a session
Created == DOMAIN sessions' # DOMAIN sessions

\* C13: a create request succeeds exactly when no session is non-stopped;
\* when it succeeds it adds one session under a fresh id, that session is
\* the one getActive returns, and every session already registered is left
\* as it was.
C13_CreateAfterStop ==
    [][/\ (ForgeResponse = 200) <=> (NonStopped = {})
       /\ Created =>
             /\ NonStopped = {}
             /\ \E id \in DOMAIN sessions' \ DOMAIN sessions :
                   /\ DOMAIN sessions' = DOMAIN sessions \cup {id}
                   /\ GetActive' = id
             /\ \A s \in DOMAIN sessions : sessions'[s] = sessions[s]]_vars

\* a step in which the stop handler set session s to stopped (runForge's
\* catch, the other writer of stopped, also ends the bootstrap)
StoppedByStop(s) ==
    /\ sessions[s].status # STOPPED
    /\ sessions'[s].status = STOPPED
    /\ forge' = forge

Chain == <<INITIALIZING, SCAFFOLDING, GENERATING_SPEC, LAUNCHING_AGENTS,
           RUNNING, STOPPED>>

Rank(status) == CHOOSE k \in DOMAIN Chain : Chain[k] = status

\* C19: every change of a session's status goes to a status later in the
\* chain initializing, scaffolding, generating-spec, launching-agents,
\* running, stopped.
C19_StatusMovesForward ==
    [][\A s \in DOMAIN sessions :
          sessions'[s].status # sessions[s].status =>
              Rank(sessions'[s].status) > Rank(sessions[s].status)]_vars

\* a step in which the bootstrap of session s failed (runForge's catch ran)
BootstrapFailed(s) ==
    /\ s \in DOMAIN forge
    /\ forge[s].pc # "failed"
    /\ forge'[s].pc = "failed"

\* C20: when the bootstrap of a session fails, at whatever step, the session
\* is stopped, its reconciler's timer is not live and none of its worker
\* containers is running.
C20_FailureLeavesNothingRunning ==
    [][\A s \in DOMAIN sessions :
          BootstrapFailed(s) =>
              /\ sessions'[s].status = STOPPED
              /\ s \notin timers'
              /\ \A r \in running' : r[1] # s]_vars

\* the session created last (ids are handed out in creation order; 0: none)
LatestCreated == Cardinality(DOMAIN sessions)

\* C27: getActive answers the session created last when that session is not
\* stopped and null otherwise; what it answers is never a stopped session.
C27_GetActiveIsLatestNonStopped ==
    /\ GetActive = IF LatestCreated # 0 /\ sessions[LatestCreated].status # STOPPED
                   THEN LatestCreated ELSE 0
    /\ GetActive # 0 => sessions[GetActive].status # STOPPED

\* C27's case: the second of two sessions is stopped and the first is not
\* stopped (its bootstrap went on after its stop); getActive answers null
C27_Witness ==
    /\ LatestCreated = 2
    /\ sessions[2].status = STOPPED
    /\ sessions[1].status # STOPPED
    /\ GetActive = 0

\* C28: whenever every session is stopped (or none exists), no worker
\* container is running and no reconciler has a live interval timer.
C28_NothingRunsWithoutSession ==
    NonStopped = {} => running = {} /\ timers = {}

\* the bootstrap of session s fails in this step
BootstrapFails(s) == forge[s].pc # "failed" /\ forge'[s].pc = "failed"

\* C29: the failure of session s's bootstrap leaves the reconciler of every
\* session created after s (hence after s was stopped) as it was: its timer
\* stays live and the server keeps it.
C29_FailureStopsOwnReconciler ==
    [][\A s \in DOMAIN forge : BootstrapFails(s) =>
          \A t \in DOMAIN sessions : t > s =>
              /\ t \in timers => t \in timers'
              /\ watcher = t => watcher' = t]_vars

\* C35: a stop request that finds getActive() null changes no session's
\* status, no tracked or running container, no reconciler and no timer.
C35_RejectedStopChangesNothing ==
    [][StopHandler /\ GetActive = 0 => UNCHANGED sessVars]_vars

\* C35's case: the only session is stopped, so a stop request is rejected,
\* while its bootstrap has gone on and a container is tracked and running
C35_Witness ==
    /\ GetActive = 0
    /\ StopResponse = 404
    /\ DOMAIN containers # {}
    /\ running # {}
    /\ \A s \in DOMAIN sessions : sessions[s].status = STOPPED

\* ======================================================================
\* Claims about the Reconciler's scheduling (checked under EventLoopSpec)
\* ======================================================================
\* C15: at most one poll is in progress at any time: a poll that has begun
\* reaches its last line before another begins, however the expiries of the
\* interval fall relative to the poll's statements.
C15_PollsNeverOverlap ==
    /\ begun - ended <= 1
    /\ callStack # "idle" => begun - ended = 1

\* C15's case: the interval expired while a poll was in the middle of its
\* statements, and its callback is waiting for that poll to end
C15_Witness ==
    /\ callStack = "updateCodeStats"
    /\ timerDue
    /\ begun = 2
    /\ ended = 1

\* ======================================================================
\* Claims about the session log (checked under LogSpec)
\* ======================================================================
\* the smaller of two numbers
Least(a, b) == IF a < b THEN a ELSE b

\* the last k of the entries added so far, in the order they were added
LatestAdded(k) == SubSeq(added, Len(added) - k + 1, Len(added))

\* C26: after any addLog calls the session holds at most 500 entries, they
\* are the latest ones added in the order added, and the serialized session
\* holds at most 50 entries, the latest ones added.
C26_LogsBounded ==
    /\ Len(logs) <= LogCap
    /\ logs = LatestAdded(Least(Len(added), LogCap))
    /\ Len(serialized) <= LogTail
    /\ serialized = LatestAdded(Least(Len(added), LogTail))

\* C26's case: two entries more than the cap were added; the two oldest are
\* gone and the serialized session holds the last fifty
C26_Witness ==
    /\ Len(added) = LogCap + 2
    /\ Len(logs) = LogCap
    /\ logs[1] = added[3]
    /\ added[1].message = "forge"
    /\ Len(serialized) = LogTail
    /\ serialized[LogTail] = added[LogCap + 2]

\* ======================================================================
\* Claims about the Reconciler's lifecycle (checked under LifecycleSpec)
\* ======================================================================
\* C30: from the return of stop() until the next start() or reset() no poll
\* runs (so no event is emitted), whatever calls came before; a stop() that
\* follows a stop() changes nothing.
C30_QuietAfterStop ==
    [][halted /\ halted' =>
          /\ pollCount' = pollCount
          /\ timerId' = timerId /\ intervals' = intervals]_vars

\* C31: when reset() returns the watcher is as a new watcher that was
\* started once: it has polled, it holds the interval it has just set, and
\* that interval is the only one live.
C31_ResetIsFreshStart ==
    [][CallReset => /\ pollCount' = pollCount + 1
                    /\ timerId' # 0
                    /\ intervals' = {timerId'}]_vars

\* ======================================================================
\* Claims about the fleet size (checked under FleetSpec)
\* ======================================================================
\* the requested value is zero / is below 1 / is above 5
IsZero(raw) == raw.kind = "num" /\ raw.n = 0 /\ ~raw.frac
BelowOne(raw) == raw.kind = "num" /\ raw.n < 1
AboveFive(raw) == raw.kind = "num" /\ (raw.n > 5 \/ (raw.n = 5 /\ raw.frac))

\* the ids 1..k in order
Ids(k) == [i \in 1..k |-> i]

====
